---- MODULE Spec2Model ----
(***************************************************************************)
(* Model of the Cline JupyterLab core: the ClineCore controller (tasks,    *)
(* messages, current-task pointer, configuration) and the title rule.      *)
(*                                                                         *)
(* Strings are sequences of one-character strings, so that split, slice,   *)
(* join and template concatenation are computed as the code computes them. *)
(* Objects live in a heap: a task reference is an index into heap, the     *)
(* controller's list holds references, and currentTask is a reference or   *)
(* Null.  Date.now() / new Date() are reads of a non-decreasing clock; the *)
(* clock may advance between any two reads, also inside one handler.       *)
(***************************************************************************)
EXTENDS Integers, Sequences, FiniteSets, TLC

VARIABLES
    config,       \* ClineCore.config
    currentTask,  \* ClineCore.currentTask: a heap reference, or Null
    tasks,        \* ClineCore.tasks: sequence of heap references
    heap,         \* the ClineTask objects ever allocated, by reference
    clock,        \* the value of the latest clock read
    last,         \* the latest controller call and what it returned
    issued,       \* history: the successful sendMessage calls, in issue order
    startedWith,  \* history: per task reference, the argument of startNewTask
    lastStarted,  \* history: the reference returned by the latest startNewTask
    titleIn,      \* input of the title computation (title specification)
    titleOut,     \* its result, as a sequence of at most one title
    adapterLast,  \* the latest adapter operation and how it went
    store,        \* the contents store of the host, by path
    hostLast,     \* the latest host provider call and how it went
    messages,     \* ClineInterface: the conversation shown
    isLoading,    \* ClineInterface: a submit is waiting for its reply
    isConnected,  \* ClineInterface: set when the component has mounted
    awaiting      \* ClineInterface: handlers suspended at their await

vars == <<config, currentTask, tasks, heap, clock, last, issued, startedWith,
          lastStarted, titleIn, titleOut, adapterLast, store, hostLast,
          messages, isLoading, isConnected, awaiting>>

adapterVars == <<adapterLast>>

providerVars == <<store, hostLast>>

widgetVars == <<messages, isLoading, isConnected, awaiting>>

-----------------------------------------------------------------------------
(* Bounds *)

MaxCalls == 3
MaxClock == 1
MaxTitleLen == 13
MaxCells == 2
MaxMessages == 5

(* Program constants *)

TitleWords == 6
ExplainLimit == 100
Null == 0

-----------------------------------------------------------------------------
(* Optional arguments: an absent argument, or a given value *)

None == [given |-> FALSE, value |-> <<>>]
Some(v) == [given |-> TRUE, value |-> v]

\* JavaScript truthiness of an optional string: undefined and "" are falsy
TruthyString(arg) == arg.given /\ arg.value # <<>>

\* JavaScript truthiness of an optional array: only undefined is falsy
TruthyArray(arg) == arg.given

Min(a, b) == IF a < b THEN a ELSE b

-----------------------------------------------------------------------------
(* String functions used by generateTaskTitle *)

RECURSIVE split(_, _)
split(s, sep) ==
    IF \A i \in 1..Len(s) : s[i] # sep
    THEN <<s>>
    ELSE LET i == CHOOSE k \in 1..Len(s) :
                      s[k] = sep /\ \A j \in 1..(k - 1) : s[j] # sep
         IN  <<SubSeq(s, 1, i - 1)>> \o split(SubSeq(s, i + 1, Len(s)), sep)

slice(xs, n) == SubSeq(xs, 1, Min(n, Len(xs)))

RECURSIVE join(_, _)
join(xs, sep) ==
    IF xs = <<>> THEN <<>>
    ELSE IF Len(xs) = 1 THEN xs[1]
    ELSE xs[1] \o <<sep>> \o join(Tail(xs), sep)

Dots == <<".", ".", ".">>

generateTaskTitle(message) ==
    LET words == slice(split(message, " "), TitleWords)
    IN  join(words, " ")
          \o (IF Len(split(message, " ")) > TitleWords THEN Dots ELSE <<>>)

\* mutant: the default title is left empty
NoTaskTitle == <<>>

NewTaskTitle == <<"New Task">>

\* the title expression of startNewTask
TaskTitle(initialMessage) ==
    IF TruthyString(initialMessage)
    THEN generateTaskTitle(initialMessage.value)
    ELSE NewTaskTitle

-----------------------------------------------------------------------------
(* Messages and tasks *)

TaskId(t) == [prefix |-> "task-", n |-> t]
MsgId(t) == [prefix |-> "msg-", n |-> t]

NoMetadataKey == [key |-> FALSE, defined |-> FALSE, images |-> <<>>]
UndefinedMetadata == [key |-> TRUE, defined |-> FALSE, images |-> <<>>]
ImagesMetadata(images) == [key |-> TRUE, defined |-> TRUE, images |-> images]

ReplyPrefix == <<"I received your message: \"">>
ReplySuffix == <<"\". This is a placeholder response. The full implementation would process this through the Cline core logic.">>

\* mutant: the reply does not echo the message
AssistantContentCanned(content) == ReplyPrefix \o ReplySuffix

AssistantContent(content) == ReplyPrefix \o content \o ReplySuffix

\* the number of message objects created so far; the next object literal
\* evaluated is object number MsgObjects + 1
MsgObjects ==
    Cardinality({r \in 1..Len(startedWith) : TruthyString(startedWith[r])})
        + 2 * Len(issued)

\* the clock reads of one handler: n reads, none earlier than the one before
Reads(n) ==
    {t \in [1..n -> clock..MaxClock] :
        \A i \in 1..(n - 1) : t[i] <= t[i + 1]}

\* mutant: the initial message is never pushed
NewTaskEmptyLog(initialMessage, t) ==
    [id        |-> TaskId(t[1]),
     title     |-> TaskTitle(initialMessage),
     messages  |-> <<>>,
     status    |-> "active",
     createdAt |-> t[2],
     updatedAt |-> t[3]]

\* the task object built by startNewTask, initial message included;
\* t[1..3] are the reads of the literal, t[4..5] those of the message
NewTask(initialMessage, t) ==
    [id        |-> TaskId(t[1]),
     title     |-> TaskTitle(initialMessage),
     messages  |-> IF TruthyString(initialMessage)
                   THEN <<[obj       |-> MsgObjects + 1,
                           id        |-> MsgId(t[4]),
                           type      |-> "user",
                           content   |-> initialMessage.value,
                           timestamp |-> t[5],
                           metadata  |-> NoMetadataKey]>>
                   ELSE <<>>,
     status    |-> "active",
     createdAt |-> t[2],
     updatedAt |-> t[3]]

\* mutant: the images are dropped
UserMessageNoImages(content, images, t) ==
    [obj       |-> MsgObjects + 1,
     id        |-> MsgId(t[1]),
     type      |-> "user",
     content   |-> content,
     timestamp |-> t[2],
     metadata  |-> UndefinedMetadata]

UserMessage(content, images, t) ==
    [obj       |-> MsgObjects + 1,
     id        |-> MsgId(t[1]),
     type      |-> "user",
     content   |-> content,
     timestamp |-> t[2],
     metadata  |-> IF TruthyArray(images)
                   THEN ImagesMetadata(images.value)
                   ELSE UndefinedMetadata]

AssistantMessage(content, t) ==
    [obj       |-> MsgObjects + 2,
     id        |-> MsgId(t[4] + 1),
     type      |-> "assistant",
     content   |-> AssistantContent(content),
     timestamp |-> t[5],
     metadata  |-> NoMetadataKey]

\* mutant: the user message object is pushed a second time
SentTaskAliased(task, content, images, t) ==
    [task EXCEPT
        !.messages  = Append(Append(Append(@, UserMessage(content, images, t)),
                                    AssistantMessage(content, t)),
                             UserMessage(content, images, t)),
        !.updatedAt = t[3]]

\* mutant: the task is marked completed once the reply is pushed
SentTaskCompleted(task, content, images, t) ==
    [task EXCEPT
        !.messages  = Append(Append(@, UserMessage(content, images, t)),
                             AssistantMessage(content, t)),
        !.status    = "completed",
        !.updatedAt = t[3]]

\* mutant: both dates are refreshed on a send
SentTaskTouchCreated(task, content, images, t) ==
    [task EXCEPT
        !.messages  = Append(Append(@, UserMessage(content, images, t)),
                             AssistantMessage(content, t)),
        !.createdAt = t[3],
        !.updatedAt = t[3]]

\* mutant: the reply is pushed before the user message
SentTaskReplyFirst(task, content, images, t) ==
    [task EXCEPT
        !.messages  = Append(Append(@, AssistantMessage(content, t)),
                             UserMessage(content, images, t)),
        !.updatedAt = t[3]]

\* mutant: the messages are replaced by the latest exchange
SentTaskLatestOnly(task, content, images, t) ==
    [task EXCEPT
        !.messages  = <<UserMessage(content, images, t),
                        AssistantMessage(content, t)>>,
        !.updatedAt = t[3]]

\* mutant: the exchange is inserted at the front (unshift)
SentTaskPrepend(task, content, images, t) ==
    [task EXCEPT
        !.messages  = <<UserMessage(content, images, t),
                        AssistantMessage(content, t)>> \o @,
        !.updatedAt = t[3]]

\* the current task after the body of sendMessage has run on it
SentTask(task, content, images, t) ==
    [task EXCEPT
        !.messages  = Append(Append(@, UserMessage(content, images, t)),
                             AssistantMessage(content, t)),
        !.updatedAt = t[3]]

\* mutant: the new task is put first (unshift)
unshiftTask(list, ref) == <<ref>> \o list

pushTask(list, ref) == Append(list, ref)

\* mutant: the pointer is only set when no task is current
keepCurrent(cur, ref) == IF cur = Null THEN ref ELSE cur

\* this.currentTask = task
setCurrent(cur, ref) == ref

-----------------------------------------------------------------------------
(* Inputs *)

StartArgs == {None, Some(<<>>), Some(<<"x">>)}
SendArgs ==
    {[content |-> <<>>, images |-> None],
     [content |-> <<"h", "i">>, images |-> Some(<<"img">>)]}

InitialConfig == [apiProvider |-> "openai", model |-> "gpt-4"]
Partials == {[model |-> "local", temperature |-> 0]}

\* mutant: the stored configuration is replaced by the partial one
replaceConfig(old, newConfig) == newConfig

\* { ...this.config, ...newConfig }
mergeConfig(old, newConfig) ==
    [k \in DOMAIN old \cup DOMAIN newConfig |->
        IF k \in DOMAIN newConfig THEN newConfig[k] ELSE old[k]]

\* Arrays have identity: the controller's own array, or an array allocated by
\* a call.  A returned list is the array it is, its elements, and whether
\* the caller has changed it since.
TasksArray == 1
FreshArray == 2

NoList == [array |-> Null, items |-> <<>>, mutated |-> FALSE]

\* mutant: the controller's own array is handed out
shareTasks(list) == [array |-> TasksArray, items |-> list, mutated |-> FALSE]

\* [...this.tasks]
copyTasks(list) == [array |-> FreshArray, items |-> list, mutated |-> FALSE]

\* The JupyterLab context: whether shell.currentWidget is set, whether it
\* has an active cell, the source of that cell and the text selected in it
NoWidget == [widget |-> FALSE, cell |-> FALSE, source |-> <<>>,
             selection |-> <<>>]

HostStates ==
    {NoWidget,
     [widget |-> TRUE, cell |-> FALSE, source |-> <<>>, selection |-> <<>>],
     [widget |-> TRUE, cell |-> TRUE, source |-> <<"p">>, selection |-> <<>>],
     [widget |-> TRUE, cell |-> TRUE, source |-> <<"p">>,
      selection |-> <<"p">>]}

\* how an adapter operation went: the error thrown inside it (or "none"),
\* whether it has called sendMessage, and whether its promise rejected
AdapterResult(op, ctx, thrown, sent, rejected) ==
    [op |-> op, ctx |-> ctx, thrown |-> thrown, sent |-> sent,
     rejected |-> rejected]

NoAdapterCall == AdapterResult("none", NoWidget, "none", FALSE, FALSE)

\* the contents store: per path a file with its text, a directory with the
\* names of its entries, or nothing
File(text) == [kind |-> "file", content |-> text]
Directory(names) == [kind |-> "directory", content |-> names]
Missing == [kind |-> "missing", content |-> <<>>]

Paths == {<<"a.py">>, <<"missing.py">>, <<"work">>}

InitialStore ==
    [p \in Paths |->
        CASE p = <<"a.py">> -> File(<<"x = 1">>)
          [] p = <<"work">> -> Directory(<<"a.py">>)
          [] OTHER          -> Missing]

\* how a host provider call went: whether its promise resolved, the value
\* or the error message, the failure of what it called (<<>> if that did
\* not fail), and what the call did, in order
HostResult(op, arg, ok, value, error, cause, events) ==
    [op |-> op, arg |-> arg, ok |-> ok, value |-> value, error |-> error,
     cause |-> cause, events |-> events]

NoHostCall == HostResult("none", <<>>, TRUE, <<>>, <<>>, <<>>, <<>>)

InitProvider ==
    /\ store = InitialStore
    /\ hostLast = NoHostCall

InitWidget ==
    /\ messages = <<>>
    /\ isLoading = FALSE
    /\ isConnected = FALSE
    /\ awaiting = <<>>

\* what a call returned: a task reference, at most one message, a list
Returned(op, ok, ref, msg, list) ==
    [op |-> op, ok |-> ok, ref |-> ref, msg |-> msg, list |-> list]

NoCall == Returned("none", TRUE, Null, <<>>, NoList)

\* number of state-changing calls made so far
Calls == Len(heap) + Len(issued)

\* number of sendMessage calls recorded for a task
SendsOf(ref) == Cardinality({i \in 1..Len(issued) : issued[i].task = ref})

-----------------------------------------------------------------------------
(* Controller *)

Init ==
    /\ config = InitialConfig
    /\ currentTask = Null
    /\ tasks = <<>>
    /\ heap = <<>>
    /\ clock = 0
    /\ last = NoCall
    /\ issued = <<>>
    /\ startedWith = <<>>
    /\ lastStarted = Null
    /\ titleIn = None
    /\ titleOut = <<>>
    /\ adapterLast = NoAdapterCall
    /\ InitProvider
    /\ InitWidget

\* mutant: a task is started implicitly before the call fails
startImplicitTask ==
    /\ heap' = Append(heap, NewTask(None, <<clock, clock, clock>>))
    /\ tasks' = Append(tasks, Len(heap) + 1)
    /\ currentTask' = Len(heap) + 1
    /\ startedWith' = Append(startedWith, None)
    /\ last' = Returned("sendMessage", FALSE, Null, <<>>, NoList)
    /\ UNCHANGED <<config, clock, issued, lastStarted, titleIn, titleOut>>

\* the guard of sendMessage: no task is current, the call throws
throwNoActiveTask ==
    /\ last' = Returned("sendMessage", FALSE, Null, <<>>, NoList)
    /\ UNCHANGED <<config, currentTask, tasks, heap, clock, issued,
                   startedWith, lastStarted, titleIn, titleOut>>

initialize ==
    /\ last' = Returned("initialize", TRUE, Null, <<>>, NoList)
    /\ UNCHANGED <<config, currentTask, tasks, heap, clock, issued,
                   startedWith, lastStarted, titleIn, titleOut, adapterVars,
                   providerVars, widgetVars>>

\* The body has no await either.
start(initialMessage) ==
    /\ Calls < MaxCalls
    /\ \E t \in Reads(IF TruthyString(initialMessage) THEN 5 ELSE 3) :
         LET ref == Len(heap) + 1 IN
         /\ heap' = Append(heap, NewTask(initialMessage, t))
         /\ currentTask' = setCurrent(currentTask, ref)
         /\ tasks' = pushTask(tasks, ref)
         /\ lastStarted' = ref
         /\ clock' = t[Len(t)]
         /\ last' = Returned("startNewTask", TRUE, ref, <<>>, NoList)
         /\ startedWith' = Append(startedWith, initialMessage)
    /\ UNCHANGED <<config, issued, titleIn, titleOut>>

startNewTask ==
    /\ \E initialMessage \in StartArgs : start(initialMessage)
    /\ UNCHANGED <<adapterVars, providerVars, widgetVars>>

\* mutant: the messages go to the task started first
sendTargetFirst == tasks[1]

\* the task sendMessage pushes to and touches
sendTarget == currentTask

\* The body has no await: a call runs from its guard to its return in one
\* step of the event loop, whatever other calls are pending.
send(content, images) ==
        IF currentTask = Null
        THEN throwNoActiveTask
        ELSE /\ Calls < MaxCalls
             /\ \E t \in Reads(5) :
                  /\ heap' = [heap EXCEPT ![sendTarget] =
                                 SentTask(@, content, images, t)]
                  /\ clock' = t[5]
                  /\ last' = Returned("sendMessage", TRUE, currentTask,
                                      <<AssistantMessage(content, t)>>, NoList)
                  /\ issued' = Append(issued, [task    |-> currentTask,
                                               content |-> content,
                                               images  |-> images])
             /\ UNCHANGED <<config, currentTask, tasks, startedWith,
                            lastStarted, titleIn, titleOut>>

sendMessage ==
    /\ \E arg \in SendArgs : send(arg.content, arg.images)
    /\ UNCHANGED <<adapterVars, providerVars, widgetVars>>

getCurrentTask ==
    /\ last' = Returned("getCurrentTask", TRUE, currentTask, <<>>, NoList)
    /\ UNCHANGED <<config, currentTask, tasks, heap, clock, issued,
                   startedWith, lastStarted, titleIn, titleOut, adapterVars,
                   providerVars, widgetVars>>

getTasks ==
    /\ last' = Returned("getTasks", TRUE, Null, <<>>, copyTasks(tasks))
    /\ UNCHANGED <<config, currentTask, tasks, heap, clock, issued,
                   startedWith, lastStarted, titleIn, titleOut, adapterVars,
                   providerVars, widgetVars>>

updateConfig ==
    /\ \E newConfig \in Partials :
         config' = mergeConfig(config, newConfig)
    /\ last' = Returned("updateConfig", TRUE, Null, <<>>, NoList)
    /\ UNCHANGED <<currentTask, tasks, heap, clock, issued, startedWith,
                   lastStarted, titleIn, titleOut, adapterVars,
                   providerVars, widgetVars>>

\* what a caller may do to an array it holds: pop, reverse, push
Reverse(list) == [i \in 1..Len(list) |-> list[Len(list) + 1 - i]]

ArrayEdits(list) ==
    {SubSeq(list, 1, Len(list) - 1), Reverse(list)}
        \cup (IF Len(list) <= Len(tasks) THEN {Append(list, Null)} ELSE {})

\* the caller changes the array it got from getTasks; when that array is
\* the controller's own, the controller's list changes with it
mutateReturned ==
    /\ last.op = "getTasks"
    /\ \E edited \in ArrayEdits(last.list.items) :
         /\ edited # last.list.items
         /\ last' = [last EXCEPT !.list = [array   |-> last.list.array,
                                           items   |-> edited,
                                           mutated |-> TRUE]]
         /\ tasks' = IF last.list.array = TasksArray THEN edited ELSE tasks
    /\ UNCHANGED <<config, currentTask, heap, clock, issued, startedWith,
                   lastStarted, titleIn, titleOut, adapterVars,
                   providerVars, widgetVars>>

Next ==
    \/ initialize
    \/ startNewTask
    \/ sendMessage
    \/ getCurrentTask
    \/ getTasks
    \/ updateConfig

Spec == Init /\ [][Next]_vars

-----------------------------------------------------------------------------
(* Adapter: ClineJupyterLabAdapter extends ClineCore *)

getCurrentNotebook(h) == h.widget

getSelectedCell(h) == getCurrentNotebook(h) /\ h.cell

\* the selected text; the empty result stands for both "" and null
getSelectedCode(h) == IF getSelectedCell(h) THEN h.selection ELSE <<>>

AnalysisText == <<"Notebook analysis: The notebook contains code cells with data processing logic. Consider adding documentation and error handling.">>

explainCode(code) ==
    <<"This code performs: ">>
        \o (IF Len(code) > ExplainLimit THEN <<"complex operations">>
            ELSE <<"basic operations">>)
        \o <<". ">> \o slice(code, ExplainLimit) \o <<"...">>

optimizeCode(code) ==
    <<"# Optimized version\n">> \o code
        \o <<"\n# TODO: Add actual optimization logic">>

AdapterOps ==
    {"analyzeCurrentNotebook", "explainSelectedCell", "optimizeSelectedCode"}

\* the test each operation makes on what it looked up
contextFound(op, h) ==
    CASE op = "analyzeCurrentNotebook" -> getCurrentNotebook(h)
      [] op = "explainSelectedCell"    -> getSelectedCell(h)
      [] op = "optimizeSelectedCode"   -> getSelectedCode(h) # <<>>

missingError(op) ==
    CASE op = "analyzeCurrentNotebook" -> "No active notebook found"
      [] op = "explainSelectedCell"    -> "No cell selected"
      [] op = "optimizeSelectedCode"   -> "No code selected"

NoActiveTaskError == "No active task. Start a new task first."

\* the markdown fence of three grave accents, a character the strings of
\* this module cannot hold
CodeFence == <<"[fence]">>

\* the text each operation passes to sendMessage
forwardedText(op, h) ==
    CASE op = "analyzeCurrentNotebook" ->
            <<"I've analyzed your notebook. Here's what I found:\n\n">>
                \o AnalysisText
      [] op = "explainSelectedCell" ->
            <<"Here's an explanation of the selected cell:\n\n">>
                \o explainCode(h.source)
      [] op = "optimizeSelectedCode" ->
            <<"Here's the optimized version of your code:\n\n">>
                \o CodeFence \o <<"python\n">>
                \o optimizeCode(getSelectedCode(h)) \o <<"\n">> \o CodeFence

\* what an operation can find in the host: the parts it does not look up
\* are left as absent
Lookups(op) ==
    CASE op = "analyzeCurrentNotebook" -> {h \in HostStates : ~h.cell}
      [] op = "explainSelectedCell"    ->
            {h \in HostStates : h.selection = <<>>}
      [] op = "optimizeSelectedCode"   -> HostStates

\* mutant: the operation goes on without the context
forwardWithoutContext(op, h) ==
    /\ send(<<>>, None)
    /\ adapterLast' = AdapterResult(op, h, "none", TRUE, FALSE)
    /\ UNCHANGED <<providerVars, widgetVars>>

\* the context is absent: the operation throws inside its try block, the
\* catch block logs the error, and the promise of the operation resolves
throwMissingContext(op, h) ==
    /\ adapterLast' = AdapterResult(op, h, missingError(op), FALSE, FALSE)
    /\ UNCHANGED <<config, currentTask, tasks, heap, clock, last, issued,
                   startedWith, lastStarted, titleIn, titleOut,
                   providerVars, widgetVars>>

\* mutant: the operation settles without calling sendMessage
invokeUnforwarded(op, h) ==
    /\ adapterLast' = AdapterResult(op, h, "none", TRUE, FALSE)
    /\ UNCHANGED <<config, currentTask, tasks, heap, clock, last, issued,
                   startedWith, lastStarted, titleIn, titleOut,
                   providerVars, widgetVars>>

\* an operation from its call to the settling of its promise, h being what
\* the host holds when the operation looks it up. The awaited transformation
\* is an async function that returns without waiting for anything, so the
\* operation resumes among the microtasks of the same turn of the event loop
\* and no other command handler runs in between. An error sendMessage throws
\* is caught and logged like the others.
invoke(op, h) ==
    IF ~contextFound(op, h)
    THEN throwMissingContext(op, h)
    ELSE /\ send(forwardedText(op, h), None)
         /\ adapterLast' = AdapterResult(op, h,
                                         IF currentTask = Null
                                         THEN NoActiveTaskError ELSE "none",
                                         TRUE, FALSE)
         /\ UNCHANGED <<providerVars, widgetVars>>

analyzeCurrentNotebook ==
    \E h \in Lookups("analyzeCurrentNotebook") : invoke("analyzeCurrentNotebook", h)

explainSelectedCell ==
    \E h \in Lookups("explainSelectedCell") : invoke("explainSelectedCell", h)

optimizeSelectedCode ==
    \E h \in Lookups("optimizeSelectedCode") : invoke("optimizeSelectedCode", h)

NextAdapter ==
    \/ startNewTask
    \/ analyzeCurrentNotebook
    \/ explainSelectedCell
    \/ optimizeSelectedCode

AdapterSpec == Init /\ [][NextAdapter]_vars

-----------------------------------------------------------------------------
(* Host provider: JupyterLabHostProvider *)

FileTexts == {<<"y = 2">>}

NotFound == <<"Error: Not Found">>
Unavailable == <<"Error: Service Unavailable">>
NotAFunction == <<"TypeError: response.content.map is not a function">>

\* what contents.get(p) can settle with: the model the store holds, or a
\* failure, which any call can meet
getOutcomes(p) ==
    {[ok |-> FALSE, model |-> Missing, error |-> e] :
        e \in (IF store[p].kind = "missing" THEN {NotFound} ELSE {})
                 \cup {Unavailable}}
    \cup (IF store[p].kind = "missing" THEN {}
          ELSE {[ok |-> TRUE, model |-> store[p], error |-> <<>>]})

\* mutant: the message leaves the path out
fileErrorNoPath(what, path, error) ==
    <<"Failed to ">> \o what \o <<": ">> \o error

\* the message of the error a file operation throws from its catch block
fileError(what, path, error) ==
    <<"Failed to ">> \o what \o <<" ">> \o path \o <<": ">> \o error

readFile ==
    \E path \in Paths : \E r \in getOutcomes(path) :
        /\ hostLast' =
              IF r.ok
              THEN HostResult("readFile", path, TRUE, r.model.content, <<>>,
                              <<>>, <<"get", "resolved">>)
              ELSE HostResult("readFile", path, FALSE, <<>>,
                              fileError(<<"read file">>, path, r.error),
                              r.error, <<"get", "rejected">>)
        /\ UNCHANGED <<config, currentTask, tasks, heap, clock, last, issued,
                       startedWith, lastStarted, titleIn, titleOut,
                       adapterVars, store, widgetVars>>

\* contents.save(path, ...) either stores the text or fails
writeFile ==
    \E path \in Paths : \E content \in FileTexts : \E saved \in BOOLEAN :
        /\ store' = IF saved THEN [store EXCEPT ![path] = File(content)]
                    ELSE store
        /\ hostLast' =
              IF saved
              THEN HostResult("writeFile", path, TRUE, <<>>, <<>>, <<>>,
                              <<"save", "resolved">>)
              ELSE HostResult("writeFile", path, FALSE, <<>>,
                              fileError(<<"write file">>, path, Unavailable),
                              Unavailable, <<"save", "rejected">>)
        /\ UNCHANGED <<config, currentTask, tasks, heap, clock, last, issued,
                       startedWith, lastStarted, titleIn, titleOut,
                       adapterVars, widgetVars>>

\* response.content.map(item => item.name): the content of a file is a
\* string, which has no map, and the TypeError is caught like a failure of
\* the store
listFiles ==
    \E directory \in Paths : \E r \in getOutcomes(directory) :
        /\ hostLast' =
              IF r.ok /\ r.model.kind = "directory"
              THEN HostResult("listFiles", directory, TRUE, r.model.content,
                              <<>>, <<>>, <<"get", "resolved">>)
              ELSE HostResult("listFiles", directory, FALSE, <<>>,
                              fileError(<<"list files in">>, directory,
                                        IF r.ok THEN NotAFunction
                                        ELSE r.error),
                              IF r.ok THEN NotAFunction ELSE r.error,
                              <<"get", IF r.ok THEN "resolved"
                                       ELSE "rejected">>)
        /\ UNCHANGED <<config, currentTask, tasks, heap, clock, last, issued,
                       startedWith, lastStarted, titleIn, titleOut,
                       adapterVars, store, widgetVars>>

Severities == {"info", "warning", "error"}

\* commands?.notificationManager: there and working, not there, or there
\* with an emit that throws
Managers == {"present", "absent", "failing"}

EmitFailed == <<"Error: emit failed">>

\* the call of emit is outside any try block
showMessage ==
    \E message \in {<<"Saved">>} : \E type \in Severities :
      \E manager \in Managers :
        /\ hostLast' =
              CASE manager = "present" ->
                     HostResult("showMessage", message, TRUE, <<>>, <<>>,
                                <<>>, <<"emit", type>>)
                [] manager = "failing" ->
                     HostResult("showMessage", message, FALSE, <<>>,
                                EmitFailed, EmitFailed, <<"emit", type>>)
                [] manager = "absent" ->
                     HostResult("showMessage", message, TRUE, <<>>, <<>>,
                                <<>>, <<"log", type>>)
        /\ UNCHANGED <<config, currentTask, tasks, heap, clock, last, issued,
                       startedWith, lastStarted, titleIn, titleOut,
                       adapterVars, store, widgetVars>>

TaskErrors == {<<"Error: kernel died">>, <<"Error: out of memory">>}

\* mutant: completion is reported whatever happened
progressEventsCompleted(failed) == <<"Starting", "task", "Completed">>

\* what showProgress does, in order: the reports and the call of the task
progressEvents(failed) ==
    <<"Starting", "task", IF failed THEN "Failed" ELSE "Completed">>

\* the unit of work resolves (<<>>) or fails with an error
showProgress ==
    \E title \in {<<"Indexing">>} : \E thrown \in {<<>>} \cup TaskErrors :
        /\ hostLast' = HostResult("showProgress", title, thrown = <<>>, <<>>,
                                  thrown, thrown,
                                  progressEvents(thrown # <<>>))
        /\ UNCHANGED <<config, currentTask, tasks, heap, clock, last, issued,
                       startedWith, lastStarted, titleIn, titleOut,
                       adapterVars, store, widgetVars>>

DefaultLanguage == "python"

\* a cell: its type and what metadata.get('language') gives, "" when it
\* gives undefined
Cells ==
    {[type |-> "markdown", language |-> "r"],
     [type |-> "code", language |-> ""],
     [type |-> "code", language |-> "python"],
     [type |-> "code", language |-> "r"],
     [type |-> "code", language |-> "julia"]}

Notebooks == UNION {[1..n -> Cells] : n \in 0..MaxCells}

\* the loop over the cells, from cell i on, language being its variable
RECURSIVE detectLanguage(_, _, _)
detectLanguage(cells, i, language) ==
    IF i > Len(cells) THEN language
    ELSE detectLanguage(cells, i + 1,
            IF /\ cells[i].type = "code"
               /\ language = "python"
               /\ cells[i].language # ""
            THEN cells[i].language
            ELSE language)

\* the extension of the path of a file, as path.split('.').pop() gives it
Extensions == {"py", "md", "txt"}

languageMap ==
    [ext \in {"py", "js", "ts", "md", "json", "yaml", "yml"} |->
        CASE ext = "py"   -> "python"
          [] ext = "js"   -> "javascript"
          [] ext = "ts"   -> "typescript"
          [] ext = "md"   -> "markdown"
          [] ext = "json" -> "json"
          [] ext = "yaml" -> "yaml"
          [] ext = "yml"  -> "yaml"]

\* the current widget: none, a notebook with its cells, or a file
Documents ==
    {[kind |-> "none", cells |-> <<>>, extension |-> ""]}
    \cup {[kind |-> "notebook", cells |-> c, extension |-> ""] :
             c \in Notebooks}
    \cup {[kind |-> "file", cells |-> <<>>, extension |-> e] :
             e \in Extensions}

\* the document is kept in the record of the call, the language is the
\* value; the text of the document is left out
getActiveDocument ==
    \E doc \in Documents :
        /\ hostLast' =
              HostResult("getActiveDocument", doc, TRUE,
                  CASE doc.kind = "none" -> <<>>
                    [] doc.kind = "notebook" ->
                         <<detectLanguage(doc.cells, 1, DefaultLanguage)>>
                    [] doc.kind = "file" ->
                         <<IF doc.extension \in DOMAIN languageMap
                           THEN languageMap[doc.extension] ELSE "text">>,
                  <<>>, <<>>, <<>>)
        /\ UNCHANGED <<config, currentTask, tasks, heap, clock, last, issued,
                       startedWith, lastStarted, titleIn, titleOut,
                       adapterVars, store, widgetVars>>

NextProvider ==
    \/ readFile
    \/ writeFile
    \/ listFiles
    \/ showMessage
    \/ showProgress
    \/ getActiveDocument

ProviderSpec == Init /\ [][NextProvider]_vars

-----------------------------------------------------------------------------
(* Chat component: ClineInterface *)

ReadyText == <<"Cline AI Assistant ready! I can help you with coding tasks in JupyterLab.">>
StartedText == <<"Started new task. How can I help you with your JupyterLab work today?">>
SendFailedText == <<"Error: Failed to send message to Cline AI.">>

\* a message of the conversation shown; its id and timestamp are left out
Message(type, content) == [type |-> type, content |-> content]

\* what the user has typed when the form is submitted
Inputs == {<<>>, <<" ">>, <<" ", "h", "i">>}

RECURSIVE trimStart(_)
trimStart(s) ==
    IF s # <<>> /\ Head(s) = " " THEN trimStart(Tail(s)) ELSE s

RECURSIVE trimEnd(_)
trimEnd(s) ==
    IF s # <<>> /\ s[Len(s)] = " "
    THEN trimEnd(SubSeq(s, 1, Len(s) - 1)) ELSE s

trim(s) == trimEnd(trimStart(s))

\* a handler suspended at its await, with the promise it awaits: settled
\* already, since the controller does its work during the call
Awaiting(handler, ok, userMessage, reply) ==
    [handler |-> handler, ok |-> ok, userMessage |-> userMessage,
     reply |-> reply]

\* the component mounts: the effect runs initializeCline, which has no await
initializeCline ==
    /\ ~isConnected
    /\ isConnected' = TRUE
    /\ messages' =
          IF currentTask = Null
          THEN Append(messages, Message("system", ReadyText))
          ELSE [i \in 1..Len(heap[currentTask].messages) |->
                  Message(heap[currentTask].messages[i].type,
                          heap[currentTask].messages[i].content)]
    /\ last' = Returned("getCurrentTask", TRUE, currentTask, <<>>, NoList)
    /\ UNCHANGED <<config, currentTask, tasks, heap, clock, issued,
                   startedWith, lastStarted, titleIn, titleOut, adapterVars,
                   providerVars, isLoading, awaiting>>

\* mutant: a submit is not held back while another one is loading
canSubmitWhileLoading(input) == trim(input) # <<>>

\* the guard of handleSubmit
canSubmit(input) == trim(input) # <<>> /\ ~isLoading

\* handleSubmit up to its await. The component has rendered again since
\* the event before, so the handler reads the isLoading of now.
handleSubmit ==
    /\ isConnected
    /\ \E input \in Inputs :
         IF ~canSubmit(input)
         THEN UNCHANGED vars
         ELSE /\ Len(messages) + 2 <= MaxMessages
              /\ messages' = Append(messages, Message("user", trim(input)))
              /\ isLoading' = TRUE
              /\ send(trim(input), None)
              /\ awaiting' =
                    Append(awaiting,
                           Awaiting("handleSubmit", currentTask # Null,
                                    trim(input),
                                    IF currentTask # Null
                                    THEN AssistantContent(trim(input))
                                    ELSE <<>>))
              /\ UNCHANGED <<adapterVars, providerVars, isConnected>>

\* the New Task button, up to its await
newTask ==
    /\ isConnected
    /\ start(None)
    /\ awaiting' = Append(awaiting, Awaiting("startNewTask", TRUE, <<>>, <<>>))
    /\ UNCHANGED <<adapterVars, providerVars, messages, isLoading,
                   isConnected>>

\* mutant: a failure is shown like a reply
settledMessageAsReply(a) == Message("assistant", a.reply)

\* the message handleSubmit adds after its await
settledMessage(a) ==
    IF a.ok THEN Message("assistant", a.reply)
    ELSE Message("system", SendFailedText)

\* the handler suspended first goes on after its await
resume ==
    /\ awaiting # <<>>
    /\ awaiting' = Tail(awaiting)
    /\ IF Head(awaiting).handler = "handleSubmit"
       THEN /\ messages' = Append(messages, settledMessage(Head(awaiting)))
            /\ isLoading' = FALSE
       ELSE /\ messages' = <<Message("system", StartedText)>>
            /\ UNCHANGED isLoading
    /\ UNCHANGED <<config, currentTask, tasks, heap, clock, last, issued,
                   startedWith, lastStarted, titleIn, titleOut, adapterVars,
                   providerVars, isConnected>>

NextWidget ==
    \/ initializeCline
    \/ handleSubmit
    \/ newTask
    \/ resume

WidgetSpec == Init /\ [][NextWidget]_vars

\* every suspended handler goes on: its promise has settled
WidgetLiveSpec == WidgetSpec /\ WF_vars(resume)

\* the controller with a caller that edits the lists getTasks returns
NextCopy ==
    \/ startNewTask
    \/ getTasks
    \/ mutateReturned

CopySpec == Init /\ [][NextCopy]_vars

-----------------------------------------------------------------------------
(* The title rule as a pure function: every non-empty string over a letter *)
(* and the space, up to MaxTitleLen characters                             *)

Alphabet == {"a", " "}

TitleInputs == UNION {[1..n -> Alphabet] : n \in 1..MaxTitleLen}

InitTitle ==
    /\ config = InitialConfig
    /\ currentTask = Null
    /\ tasks = <<>>
    /\ heap = <<>>
    /\ clock = 0
    /\ last = NoCall
    /\ issued = <<>>
    /\ startedWith = <<>>
    /\ lastStarted = Null
    /\ titleIn \in {Some(m) : m \in TitleInputs}
    /\ titleOut = <<>>
    /\ adapterLast = NoAdapterCall
    /\ InitProvider
    /\ InitWidget

\* the title startNewTask(titleIn) gives the task it creates
computeTitle ==
    /\ titleOut = <<>>
    /\ titleOut' = <<TaskTitle(titleIn)>>
    /\ UNCHANGED <<config, currentTask, tasks, heap, clock, last, issued,
                   startedWith, lastStarted, titleIn, adapterVars,
                   providerVars, widgetVars>>

NextTitle == computeTitle

TitleSpec == InitTitle /\ [][NextTitle]_vars

-----------------------------------------------------------------------------
(* Helpers of the properties *)

IsPrefix(a, b) == Len(a) <= Len(b) /\ SubSeq(b, 1, Len(a)) = a

Contains(s, sub) ==
    \E i \in 0..(Len(s) - Len(sub)) : SubSeq(s, i + 1, i + Len(sub)) = sub

Refs == 1..Len(heap)

\* 1 when the task was started with a (non-empty) initial message, else 0
InitialCount(ref) == IF TruthyString(startedWith[ref]) THEN 1 ELSE 0

\* the successful sendMessage calls issued while ref was current, in order
CallsOf(ref) ==
    LET ForRef(c) == c.task = ref IN SelectSeq(issued, ForRef)

SendReturned == last.op = "sendMessage" /\ last.ok

\* the whitespace-separated words of a string
RECURSIVE WordsOf(_)
WordsOf(s) ==
    IF s = <<>> THEN <<>>
    ELSE IF s[1] = " " THEN WordsOf(Tail(s))
    ELSE LET stops == {k \in 1..Len(s) : s[k] = " "}
             n == IF stops = {} THEN Len(s) + 1
                  ELSE CHOOSE k \in stops : \A j \in stops : k <= j
         IN  <<SubSeq(s, 1, n - 1)>> \o WordsOf(SubSeq(s, n, Len(s)))

\* the title rule as stated: the first six words joined by single spaces,
\* and the ellipsis iff there are more than six words (the ellipsis is
\* taken to be the three dots of the code and of its test)
RuleTitle(s) ==
    join(slice(WordsOf(s), TitleWords), " ")
        \o (IF Len(WordsOf(s)) > TitleWords THEN Dots ELSE <<>>)

-----------------------------------------------------------------------------
(* Properties *)

\* C1: a sendMessage issued while no task is current fails, and leaves the
\* task list (of length 0), the current-task pointer and every task as
\* they were.
C1_NoActiveTaskNoMutation ==
    [][(last'.op = "sendMessage" /\ currentTask = Null)
          => /\ ~last'.ok
             /\ tasks' = tasks /\ Len(tasks') = 0
             /\ currentTask' = currentTask
             /\ heap' = heap]_vars

C1_Witness ==
    /\ last.op = "sendMessage" /\ ~last.ok
    /\ tasks = <<>> /\ currentTask = Null /\ heap = <<>>

\* C2: a successful sendMessage(content) appends exactly two messages to
\* the current task: the user message with that content, then one assistant
\* message, which is the value returned, is the last message of the task
\* and contains the content sent.
C2_SendAppendsUserThenAssistant ==
    [][(last'.op = "sendMessage" /\ last'.ok)
          => /\ currentTask # Null /\ currentTask' = currentTask
             /\ Len(issued') = Len(issued) + 1
             /\ LET before  == heap[currentTask].messages
                    after   == heap'[currentTask].messages
                    n       == Len(before)
                    content == issued'[Len(issued')].content
                IN  /\ Len(after) = n + 2
                    /\ SubSeq(after, 1, n) = before
                    /\ after[n + 1].type = "user"
                    /\ after[n + 1].content = content
                    /\ after[n + 2].type = "assistant"
                    /\ last'.msg = <<after[n + 2]>>
                    /\ Contains(after[n + 2].content, content)]_vars

C2_Witness ==
    /\ SendReturned
    /\ issued[Len(issued)].content = <<"h", "i">>
    /\ Len(heap[currentTask].messages) = 3

C4_TaskListAppendOnly ==
    [][/\ IsPrefix(tasks, tasks')
       /\ last'.op = "startNewTask"
             => /\ Len(tasks') = Len(tasks) + 1
                /\ tasks'[Len(tasks')] = last'.ref
       /\ last'.op # "startNewTask" => tasks' = tasks]_vars

C4_Witness ==
    /\ Len(tasks) = 2
    /\ last.op = "startNewTask"
    /\ tasks[1] # tasks[2]

\* C5: the messages of a task are never reordered or truncated: in every
\* step the messages before are a prefix of the messages after, so every
\* message keeps its place, id, role, content and timestamp.
C5_MessagesPrefixPreserved ==
    [][\A ref \in Refs :
          /\ ref \in 1..Len(heap')
          /\ IsPrefix(heap[ref].messages, heap'[ref].messages)]_vars

C5_Witness ==
    \E ref \in Refs : SendsOf(ref) = 2 /\ Len(heap[ref].messages) >= 4

\* C6: the current-task pointer is null before the first startNewTask and
\* afterwards is the task returned by the latest startNewTask, which is the
\* last of the task list; getCurrentTask returns it and never throws.
C6_CurrentIsLatestStarted ==
    /\ tasks = <<>> => currentTask = Null /\ lastStarted = Null
    /\ tasks # <<>> => /\ currentTask # Null
                       /\ currentTask = lastStarted
                       /\ currentTask = tasks[Len(tasks)]
    /\ last.op = "getCurrentTask" => last.ok /\ last.ref = currentTask

C6_Witness ==
    /\ Len(tasks) = 2
    /\ last.op = "getCurrentTask"
    /\ last.ref = tasks[2]

\* C7: after startNewTask and after every sendMessage, the updatedAt of the
\* task is not earlier than the timestamp of the message appended last.
C7_UpdatedAtCoversLastMessage ==
    \A ref \in Refs :
        LET m == heap[ref].messages
        IN  m # <<>> => heap[ref].updatedAt >= m[Len(m)].timestamp

\* C8: sendMessage calls act as atomic units in issue order: the messages
\* of a task after its initial message are, call by call in the order of
\* issue, the user message of the call followed at once by its reply, and
\* they are in the task that was current when the call was issued.
C8_PairsInIssueOrder ==
    \A ref \in Refs :
        LET m == heap[ref].messages
            i == InitialCount(ref)
            calls == CallsOf(ref)
        IN  /\ Len(m) = i + 2 * Len(calls)
            /\ \A j \in 1..Len(calls) :
                  /\ m[i + 2 * j - 1].type = "user"
                  /\ m[i + 2 * j - 1].content = calls[j].content
                  /\ m[i + 2 * j].type = "assistant"
                  /\ Contains(m[i + 2 * j].content, calls[j].content)
                  /\ Contains(m[i + 2 * j].content, ReplyPrefix)

C8_Witness ==
    \E ref \in Refs :
        /\ InitialCount(ref) = 1
        /\ Len(CallsOf(ref)) = 2
        /\ CallsOf(ref)[1].content # CallsOf(ref)[2].content

\* C9: startNewTask(m) with a non-empty m returns an active task with the
\* one user message m; the task returned is the object the controller
\* holds (its current task, last in its list), so the message sendMessage
\* appends later is read through the reference that was returned.
C9_StartWithMessage ==
    /\ (last.op = "startNewTask" /\ TruthyString(startedWith[last.ref]))
          => /\ heap[last.ref].status = "active"
             /\ Len(heap[last.ref].messages) = 1
             /\ heap[last.ref].messages[1].content = startedWith[last.ref].value
             /\ heap[last.ref].messages[1].type = "user"
             /\ last.ref = currentTask
             /\ last.ref = tasks[Len(tasks)]
             /\ last.ref = lastStarted
    /\ SendReturned
          => /\ lastStarted # Null
             /\ heap[lastStarted].messages # <<>>
             /\ last.msg = <<heap[lastStarted].messages[
                                 Len(heap[lastStarted].messages)]>>

C9_Witness ==
    /\ last.op = "startNewTask"
    /\ startedWith[last.ref] = Some(<<"x">>)
    /\ Len(heap[last.ref].messages) = 1

\* C10: the title of the task created from a message is the first six
\* whitespace-separated words joined by single spaces, with the ellipsis
\* iff the message has more than six words, also when the message has
\* consecutive, leading or trailing whitespace.
C10_TitleRule ==
    titleOut # <<>> => titleOut[1] = RuleTitle(titleIn.value)

\* C11: startNewTask() without an argument gives an active task with no
\* message and the title "New Task", which becomes the current task and the
\* last element of the task list.
C11_StartWithoutMessage ==
    (last.op = "startNewTask" /\ ~startedWith[last.ref].given)
       => /\ heap[last.ref].messages = <<>>
          /\ heap[last.ref].title = <<"New Task">>
          /\ heap[last.ref].status = "active"
          /\ currentTask = last.ref
          /\ tasks # <<>> /\ tasks[Len(tasks)] = last.ref

C11_Witness ==
    /\ last.op = "startNewTask"
    /\ startedWith[last.ref] = None
    /\ Len(tasks) = 2

\* every message of every task, as (task reference, position)
MessageSlots ==
    UNION {{<<ref, i>> : i \in 1..Len(heap[ref].messages)} : ref \in Refs}

\* C12: no two distinct messages, in whatever tasks, have the same id, for
\* every timing of the calls.
C12_MessageIdsUnique ==
    \A a, b \in MessageSlots :
        a # b => heap[a[1]].messages[a[2]].id # heap[b[1]].messages[b[2]].id

\* C13: no two tasks of the task list have the same id, and no task id is
\* the id of a message.
C13_TaskIdsUnique ==
    /\ \A i, j \in 1..Len(tasks) :
          i # j => heap[tasks[i]].id # heap[tasks[j]].id
    /\ \A ref \in Refs, s \in MessageSlots :
          heap[ref].id # heap[s[1]].messages[s[2]].id

\* C14: every message object is in exactly one task, once: no object
\* created by startNewTask or sendMessage is at two places, in two tasks or
\* in one.
C14_MessageInOneTask ==
    \A a, b \in MessageSlots :
        a # b => heap[a[1]].messages[a[2]].obj # heap[b[1]].messages[b[2]].obj

C14_Witness ==
    /\ Len(tasks) = 2
    /\ heap[1].messages # <<>>
    /\ Len(heap[2].messages) >= 2
    /\ heap[1].messages[1].id = heap[2].messages[1].id

\* C16: every task has status active in every reachable state; no state
\* has a task that is completed or failed.
C16_StatusAlwaysActive ==
    \A ref \in Refs : heap[ref].status = "active"

C16_Witness ==
    \E ref \in Refs :
        /\ heap[ref].status = "active"
        /\ SendsOf(ref) = 2

\* C17: createdAt of a task never changes after its creation, and updatedAt
\* is never earlier than createdAt.
C17_CreatedAtImmutable ==
    /\ [](\A ref \in Refs : heap[ref].updatedAt >= heap[ref].createdAt)
    /\ [][\A ref \in Refs :
             /\ ref \in 1..Len(heap')
             /\ heap'[ref].createdAt = heap[ref].createdAt]_vars

C17_Witness ==
    \E ref \in Refs :
        /\ SendsOf(ref) >= 1
        /\ heap[ref].updatedAt > heap[ref].createdAt

\* C18: updateConfig(partial) gives every field of partial the given value,
\* keeps every other field of the configuration, and changes neither the
\* task list, nor the current task, nor any task.
C18_UpdateConfigMerges ==
    [][last'.op = "updateConfig"
          => /\ \E partial \in Partials :
                  /\ DOMAIN config' = DOMAIN config \cup DOMAIN partial
                  /\ \A k \in DOMAIN partial : config'[k] = partial[k]
                  /\ \A k \in DOMAIN config \ DOMAIN partial :
                        config'[k] = config[k]
             /\ tasks' = tasks
             /\ currentTask' = currentTask
             /\ heap' = heap]_vars

C18_Witness ==
    /\ last.op = "updateConfig"
    /\ config = [apiProvider |-> "openai", model |-> "local",
                 temperature |-> 0]
    /\ tasks # <<>>

C15_GetTasksDefensiveCopy ==
    /\ []((last.op = "getTasks" /\ ~last.list.mutated)
             => last.list.items = tasks)
    /\ [][(last'.list.mutated /\ last'.list # last.list)
             => /\ tasks' = tasks
                /\ currentTask' = currentTask
                /\ heap' = heap]_vars

C15_Witness ==
    /\ last.op = "getTasks"
    /\ last.list.mutated
    /\ last.list.items # tasks
    /\ Len(tasks) = 2

\* whether the host lacks the context an adapter operation needs
ContextAbsent(op, h) ==
    CASE op = "analyzeCurrentNotebook" -> ~h.widget
      [] op = "explainSelectedCell"    -> ~h.widget \/ ~h.cell
      [] op = "optimizeSelectedCode"   ->
            ~h.widget \/ ~h.cell \/ h.selection = <<>>
      [] OTHER -> FALSE

\* a step in which an adapter operation is called: its outcome is recorded,
\* or it is the sendMessage call an adapter operation makes
AdapterCalled ==
    /\ adapterLast'.op \in AdapterOps
    /\ \/ adapterLast' # adapterLast
       \/ last' # last /\ last'.op = "sendMessage"

C21_AdapterErrorsReachCaller ==
    adapterLast.thrown # "none" => adapterLast.rejected

FileOps == {"readFile", "writeFile", "listFiles"}

\* the calls a host provider operation made to the contents store
StoreCalls(events) ==
    Cardinality({i \in DOMAIN events : events[i] \in {"get", "save"}})

\* C22: readFile, writeFile and listFiles call the contents store once; when
\* that call fails, the operation fails with an error whose message contains
\* the path it was given; when it does not fail, readFile returns exactly
\* the content the store holds for the path.
C22_FileFailuresNamePath ==
    hostLast.op \in FileOps =>
        /\ StoreCalls(hostLast.events) = 1
        /\ hostLast.cause # <<>> =>
              ~hostLast.ok /\ Contains(hostLast.error, hostLast.arg)
        /\ (hostLast.op = "readFile" /\ hostLast.cause = <<>>) =>
              hostLast.ok /\ hostLast.value = store[hostLast.arg].content

C22_Witness ==
    /\ hostLast.op = "readFile"
    /\ hostLast.arg = <<"missing.py">>
    /\ hostLast.cause = NotFound
    /\ ~hostLast.ok

\* C23: showMessage completes normally for every severity and every state
\* of the notification manager: present, absent, or failing when it emits.
C23_ShowMessageNeverFails ==
    hostLast.op = "showMessage" => hostLast.ok

\* C24: showProgress reports the start, runs the unit of work once, then
\* reports completion or failure, one of them; when the unit of work
\* fails, failure is reported and the call fails with the same error.
C24_ProgressReportsThenRethrows ==
    hostLast.op = "showProgress" =>
        LET e == hostLast.events IN
        /\ Cardinality({i \in DOMAIN e : e[i] = "task"}) = 1
        /\ Len(e) = 3 /\ e[1] = "Starting" /\ e[2] = "task"
        /\ hostLast.cause # <<>> =>
              /\ e[3] = "Failed"
              /\ ~hostLast.ok
              /\ hostLast.error = hostLast.cause
        /\ hostLast.cause = <<>> => e[3] = "Completed" /\ hostLast.ok

C24_Witness ==
    /\ hostLast.op = "showProgress"
    /\ hostLast.cause \in TaskErrors
    /\ hostLast.error = hostLast.cause

\* the override of the first code cell that declares one, else the default
RECURSIVE FirstOverride(_)
FirstOverride(cells) ==
    IF cells = <<>> THEN DefaultLanguage
    ELSE IF Head(cells).type = "code" /\ Head(cells).language # ""
         THEN Head(cells).language
         ELSE FirstOverride(Tail(cells))

\* C25: for a notebook, getActiveDocument returns the default language when
\* no code cell declares an override, and else the override of the first
\* code cell that declares one, whatever its value.
C25_FirstOverrideWins ==
    (hostLast.op = "getActiveDocument" /\ hostLast.arg.kind = "notebook")
        => hostLast.value = <<FirstOverride(hostLast.arg.cells)>>

\* the handleSubmit calls suspended at their await
SubmitsInFlight ==
    Cardinality({i \in DOMAIN awaiting :
                    awaiting[i].handler = "handleSubmit"})

\* a step in which handleSubmit goes past its guard
SubmitStarts ==
    /\ Len(awaiting') = Len(awaiting) + 1
    /\ awaiting'[Len(awaiting')].handler = "handleSubmit"

\* the handleSubmit call suspended first goes on after a failed sendMessage
FailedSubmitResumes ==
    /\ awaiting # <<>>
    /\ Head(awaiting).handler = "handleSubmit"
    /\ ~Head(awaiting).ok
    /\ awaiting' = Tail(awaiting)

\* C26: when sendMessage fails during a submit, the component adds one
\* system message to the conversation, right after the user's message of
\* the submit, adds no assistant message, and sets isLoading back to false.
C26_SendFailureShownAsSystemMessage ==
    [][FailedSubmitResumes =>
          /\ messages # <<>>
          /\ messages[Len(messages)] =
                Message("user", Head(awaiting).userMessage)
          /\ messages' = Append(messages, Message("system", SendFailedText))
          /\ ~isLoading']_vars

C26_Witness ==
    /\ Len(messages) >= 2
    /\ messages[Len(messages) - 1] = Message("user", <<"h", "i">>)
    /\ messages[Len(messages)] = Message("system", SendFailedText)
    /\ ~isLoading
    /\ last = Returned("sendMessage", FALSE, Null, <<>>, NoList)

\* C29: at most one submit is in flight: a submit while isLoading, or with
\* blank input, calls no sendMessage and adds no message; and after every
\* submit that started, isLoading becomes false again.
C29_OneSubmitInFlight ==
    /\ [](/\ SubmitsInFlight <= 1
          /\ isLoading <=> SubmitsInFlight = 1
          /\ \A i \in DOMAIN awaiting :
                awaiting[i].handler = "handleSubmit"
                    => awaiting[i].userMessage # <<>>
          /\ \A i \in DOMAIN issued : issued[i].content # <<>>)
    /\ [][isLoading =>
             /\ ~SubmitStarts
             /\ issued' = issued
             /\ last' # last => last'.op # "sendMessage"
             /\ Len(messages') > Len(messages) =>
                   messages'[Len(messages')].type # "user"]_vars
    /\ (isLoading ~> ~isLoading)

C29_Witness ==
    /\ isLoading
    /\ SubmitsInFlight = 1
    /\ Len(issued) = 1

\* a step in which an adapter operation is called while its context is
\* there and a task is current
AdapterForwards ==
    /\ AdapterCalled
    /\ ~ContextAbsent(adapterLast'.op, adapterLast'.ctx)
    /\ currentTask # Null

\* C27: an adapter operation called with its context present and a task
\* current calls sendMessage once with its transformed text: the current
\* task gains two messages, the text as a user message and then one reply,
\* and no other task changes.
C27_AdapterForwardsOnce ==
    [][AdapterForwards =>
          LET m  == heap[currentTask].messages
              m2 == heap'[currentTask].messages
          IN  /\ Len(m2) = Len(m) + 2
              /\ SubSeq(m2, 1, Len(m)) = m
              /\ m2[Len(m) + 1].type = "user"
              /\ m2[Len(m) + 1].content =
                    forwardedText(adapterLast'.op, adapterLast'.ctx)
              /\ m2[Len(m) + 2].type = "assistant"
              /\ Len(issued') = Len(issued) + 1
              /\ currentTask' = currentTask
              /\ tasks' = tasks
              /\ \A ref \in Refs \ {currentTask} : heap'[ref] = heap[ref]]_vars

C27_Witness ==
    /\ adapterLast.op = "optimizeSelectedCode"
    /\ adapterLast.sent
    /\ adapterLast.thrown = "none"
    /\ Len(tasks) = 2
    /\ currentTask = tasks[2]
    /\ Len(heap[tasks[2]].messages) = 2
    /\ heap[tasks[2]].messages[1].content =
          forwardedText("optimizeSelectedCode", adapterLast.ctx)

\* C28: a step changes no task but the current one, and a task that has
\* stopped being current is never current again: the current task only
\* ever changes to a task created in that step.
C28_SupersededTaskFrozen ==
    [][/\ \A ref \in Refs : ref # currentTask => heap'[ref] = heap[ref]
       /\ currentTask' # currentTask => currentTask' \notin Refs]_vars

C28_Witness ==
    /\ Len(tasks) = 2
    /\ heap[tasks[1]].messages # <<>>
    /\ currentTask = tasks[2]
    /\ last.op = "sendMessage" /\ last.ok
    /\ Len(heap[tasks[2]].messages) = 2

\* C30: a task started with an initialMessage argument, the empty string
\* included, has that message as its first message and a title derived
\* from it.
C30_ProvidedMessageAppended ==
    \A ref \in Refs :
        startedWith[ref].given
            => /\ heap[ref].messages # <<>>
               /\ heap[ref].messages[1].content = startedWith[ref].value
               /\ heap[ref].title = generateTaskTitle(startedWith[ref].value)

====
